---- MODULE Spec2Model ----
(***************************************************************************)
(* Model of image_finder.py: the pure scanner scan_images, the list model  *)
(* ImageListModel with its filter proxy, and the scan controller           *)
(* (ViewModel + ScanWorker) with its worker threads and the foreground     *)
(* event queue.                                                            *)
(*                                                                         *)
(* Strings are sequences of one-character strings, so that lower(),        *)
(* suffix, basename, substring search and lexicographic comparison are     *)
(* computed character by character as the Python code computes them.       *)
(***************************************************************************)
EXTENDS Integers, Sequences, FiniteSets, TLC

VARIABLES
    fs,              \* the filesystem: a set of nodes [path, kind, target]
    root,            \* scan_images: argument root
    exts,            \* scan_images: argument exts (a tuple of strings)
    out,             \* scan_images: the list returned by the last call
    raised,          \* scan_images: whether the last call raised
    calls,           \* scan_images: number of calls made so far
    paths,           \* ImageListModel._paths
    thumbs,          \* ImageListModel._thumbs (its keys)
    filterText,      \* the proxy's fixed filter string
    proxyRows,       \* the proxy's mapping: proxy row -> source row
    busy,            \* ViewModel._busy
    current_worker,  \* ViewModel._current_worker (0 is None)
    workers,         \* the ScanWorker objects created so far, by creation order
    queue,           \* queued signal deliveries waiting on the foreground thread
    notif,           \* what the last handler emitted / reported
    hist,            \* history of the newest session until its finished is
                     \*          handled: _paths at its request, whether the user
                     \*          removed an entry or cleared the store since, and
                     \*          the failure reports printed
    cleared,         \* history: an invalid-path request cleared the store and
                     \*          no valid request was made since
    emitted          \* history: the value carried by the last busyChanged
                     \*          ("none" before the first)

vars == <<fs, root, exts, out, raised, calls, paths, thumbs, filterText,
          proxyRows, busy, current_worker, workers, queue, notif, hist,
          cleared, emitted>>

scanVars == <<root, exts, out, raised, calls>>
storeVars == <<paths, thumbs, filterText, proxyRows>>
ctlVars == <<busy, current_worker, workers, queue, hist, cleared, emitted>>

----------------------------------------------------------------------------
(* Bounds of the model *)

MaxCalls == 2
MaxWorkers == 2
MaxLen == 3
MaxSel == 2

----------------------------------------------------------------------------
(* Characters and strings *)

UpperChars == <<"A","B","C","D","E","F","G","H","I","J","K","L","M",
                "N","O","P","Q","R","S","T","U","V","W","X","Y","Z">>
LowerChars == <<"a","b","c","d","e","f","g","h","i","j","k","l","m",
                "n","o","p","q","r","s","t","u","v","w","x","y","z">>

\* The characters used, in code point order (Python compares str by code point).
CodePointOrder == <<".", "/">> \o UpperChars \o <<"_">> \o LowerChars

Ord(c) == CHOOSE i \in 1..Len(CodePointOrder) : CodePointOrder[i] = c

IsUpper(c) == \E i \in 1..Len(UpperChars) : UpperChars[i] = c

\* str.lower() of each character used
LowerOf ==
    [c \in {CodePointOrder[i] : i \in 1..Len(CodePointOrder)} |->
        IF IsUpper(c)
        THEN LowerChars[CHOOSE i \in 1..Len(UpperChars) : UpperChars[i] = c]
        ELSE c]

char_lower(c) == LowerOf[c]

\* str.lower()
lower(s) == [i \in 1..Len(s) |-> char_lower(s[i])]

\* str.rfind(c) + 1: the last position of character c in s, 0 when absent
rfind(s, c) ==
    IF \E i \in 1..Len(s) : s[i] = c
    THEN CHOOSE i \in 1..Len(s) : s[i] = c /\ \A j \in (i+1)..Len(s) : s[j] # c
    ELSE 0

\* Python's str < str
StrLess(a, b) ==
    \/ Len(a) < Len(b) /\ SubSeq(b, 1, Len(a)) = a
    \/ \E k \in 1..Len(a) :
          /\ k <= Len(b)
          /\ SubSeq(a, 1, k-1) = SubSeq(b, 1, k-1)
          /\ Ord(a[k]) < Ord(b[k])

\* a in b for two str
Contains(b, a) ==
    \E i \in 0..(Len(b) - Len(a)) : SubSeq(b, i+1, i+Len(a)) = a

StartsWith(s, p) == Len(p) <= Len(s) /\ SubSeq(s, 1, Len(p)) = p

\* os.path.basename
basename(p) == SubSeq(p, rfind(p, "/") + 1, Len(p))

\* PurePath.suffix of the final component
suffix(p) ==
    LET name == basename(p)
        i == rfind(name, ".")
    IN  IF 1 < i /\ i < Len(name) THEN SubSeq(name, i, Len(name)) ELSE <<>>

\* x in t for a tuple t
InTuple(x, t) == \E i \in 1..Len(t) : t[i] = x

RECURSIVE Insert(_, _)
Insert(sorted, x) ==
    IF sorted = <<>> THEN <<x>>
    ELSE IF StrLess(x, Head(sorted)) THEN <<x>> \o sorted
    ELSE <<Head(sorted)>> \o Insert(Tail(sorted), x)

\* list.sort()
RECURSIVE sort(_)
sort(l) == IF l = <<>> THEN <<>> ELSE Insert(sort(SubSeq(l, 1, Len(l)-1)), l[Len(l)])

----------------------------------------------------------------------------
(* The filesystem *)

Dir(p) == [path |-> p, kind |-> "dir", target |-> <<>>]
File(p) == [path |-> p, kind |-> "file", target |-> <<>>]
Link(p, t) == [path |-> p, kind |-> "link", target |-> t]

S_r == <<"/","r">>
S_r_a == <<"/","r","/","a",".","p","n","g">>
S_r_b == <<"/","r","/","b",".","J","P","G">>
S_r_c == <<"/","r","/","c",".","t","x","t">>
S_r_s == <<"/","r","/","s">>
S_r_s_d == <<"/","r","/","s","/","d",".","p","n","g">>
S_r_e == <<"/","r","/","e",".","p","n","g">>
S_n == <<"/","n">>
S_q == <<"/","q">>
S_q_z == <<"/","q","/","z",".","g","i","f">>

Exists(f, p) == \E n \in f : n.path = p
Node(f, p) == CHOOSE n \in f : n.path = p

\* The node a path leads to once a symbolic link is followed (links point at
\* files, directories or nothing, never at links).
Followed(f, p) ==
    IF ~Exists(f, p) THEN [path |-> p, kind |-> "none", target |-> <<>>]
    ELSE IF Node(f, p).kind # "link" THEN Node(f, p)
    ELSE IF Exists(f, Node(f, p).target) THEN Node(f, Node(f, p).target)
    ELSE [path |-> p, kind |-> "none", target |-> <<>>]

\* Path.is_dir(), os.path.isdir()
is_dir(f, p) == Followed(f, p).kind = "dir"

\* Path.is_file()
is_file(f, p) == Followed(f, p).kind = "file"

\* Path.resolve(): symbolic links collapsed
resolve(f, p) ==
    IF Exists(f, p) /\ Node(f, p).kind = "link" THEN Node(f, p).target ELSE p

\* Path.rglob("*"): every entry below base, at any depth
rglob(f, base) == {n.path : n \in {m \in f : StartsWith(m.path, base \o <<"/">>)}}

----------------------------------------------------------------------------
(* scan_images *)

IMAGE_EXTENSIONS ==
    << <<".","p","n","g">>, <<".","j","p","g">>, <<".","j","p","e","g">>,
       <<".","b","m","p">>, <<".","g","i","f">>, <<".","t","i","f","f">>,
       <<".","t","i","f">>, <<".","w","e","b","p">>, <<".","h","e","i","c">>,
       <<".","h","e","i","f">>, <<".","s","v","g">>, <<".","p","p","m">>,
       <<".","p","g","m">> >>

\* A plausible slip in the test of line 44: "or" for "and".
accepted_or(f, p, exts_lower) ==
    is_file(f, p) \/ InTuple(lower(suffix(p)), exts_lower)

\* line 44: p.is_file() and p.suffix.lower() in exts_lower
accepted(f, p, exts_lower) ==
    is_file(f, p) /\ InTuple(lower(suffix(p)), exts_lower)

\* lines 43-45: the loop appending str(p.resolve()) for each accepted entry,
\* in the order the directory walk yields them
RECURSIVE walk(_, _, _)
walk(f, entries, exts_lower) ==
    IF entries = {} THEN <<>>
    ELSE LET p == CHOOSE e \in entries : TRUE
             rest == walk(f, entries \ {p}, exts_lower)
         IN  IF accepted(f, p, exts_lower)
             THEN <<resolve(f, p)>> \o rest
             ELSE rest

\* scan_images(root, exts): the list returned
scan_images(f, r, e) ==
    IF ~is_dir(f, r) THEN <<>>
    ELSE LET exts_lower == [i \in 1..Len(e) |-> lower(e[i])]
         IN  sort(walk(f, rglob(f, r), exts_lower))

\* Whether the call can end in an exception: only the directory walk does
\* I/O that may raise, and it is reached only for a directory.
can_raise(f, r) == is_dir(f, r)

----------------------------------------------------------------------------
(* Specification of scan_images alone: the inputs are drawn in Init *)

OptionalNodes ==
    { File(S_r_a), File(S_r_b), File(S_r_c), Dir(S_r_s), File(S_r_s_d),
      Link(S_r_e, S_r_a), Link(S_r_e, S_r_c) }

WellFormed(f) ==
    /\ \A n, m \in f : n.path = m.path => n = m
    /\ File(S_r_s_d) \in f => Dir(S_r_s) \in f

FsFamily ==
    { {Dir(S_r)} \cup x : x \in {y \in SUBSET OptionalNodes : WellFormed(y)} }

Roots == {S_r, S_r_s, S_r_a, S_n}

ExtSets ==
    { IMAGE_EXTENSIONS,
      << <<".","P","N","G">> >>,
      << <<".","t","x","t">> >>,
      << <<".","j","p","g">>, <<".","g","i","f">> >> }

\* The filesystem the controller runs on
FsCtl ==
    { Dir(S_r), File(S_r_a), File(S_r_c),
      Dir(S_q), File(S_q_z) }

InitStore ==
    /\ paths = <<>>
    /\ thumbs = {}
    /\ filterText = <<>>
    /\ proxyRows = <<>>

NoHist == [store |-> <<>>, touched |-> FALSE, reports |-> 0]

InitCtl ==
    /\ busy = FALSE
    /\ current_worker = 0
    /\ workers = <<>>
    /\ queue = <<>>
    /\ notif = <<>>
    /\ hist = NoHist
    /\ cleared = FALSE
    /\ emitted = "none"

InitScanVars ==
    /\ out = <<>>
    /\ raised = FALSE
    /\ calls = 0

InitScan ==
    /\ fs \in FsFamily
    /\ root \in Roots
    /\ exts \in ExtSets
    /\ InitScanVars
    /\ InitStore
    /\ InitCtl

\* One call scan_images(root, exts); io is whether the walk hits an I/O error
ScanCall(io) ==
    /\ calls < MaxCalls
    /\ calls' = calls + 1
    /\ raised' = (io /\ can_raise(fs, root))
    /\ out' = IF raised' THEN <<>> ELSE scan_images(fs, root, exts)
    /\ UNCHANGED <<fs, root, exts, storeVars, ctlVars, notif>>

NextScan == \E io \in BOOLEAN : ScanCall(io)

SpecScan == InitScan /\ [][NextScan]_vars

\* The regular files below r whose lower-cased suffix is in the lower-cased e
MatchingFiles(f, r, e) ==
    { n.path : n \in { m \in f : /\ m.kind = "file"
                                 /\ StartsWith(m.path, r \o <<"/">>)
                                 /\ \E i \in 1..Len(e) :
                                        lower(e[i]) = lower(suffix(m.path)) } }

\* The entries below r that lead to a file and carry a suffix of e
MatchingEntries(f, r, e) ==
    { n \in f : /\ StartsWith(n.path, r \o <<"/">>)
                /\ Followed(f, n.path).kind = "file"
                /\ \E i \in 1..Len(e) : lower(e[i]) = lower(suffix(n.path)) }

Returned == calls > 0 /\ ~raised

\* C7: scan_images(root, exts) returns exactly the regular files below root
\* whose lower-cased suffix is in the lower-cased exts, each exactly once, in
\* ascending lexicographic order, and no path with a suffix outside exts.
C7_ScanExactOnceSorted ==
    (Returned /\ is_dir(fs, root)) =>
        /\ \A i \in 1..(Len(out) - 1) : StrLess(out[i], out[i+1])
        /\ {out[i] : i \in 1..Len(out)} = MatchingFiles(fs, root, exts)
        /\ \A i \in 1..Len(out) :
              \E k \in 1..Len(exts) : lower(exts[k]) = lower(suffix(out[i]))

\* C8: on a root that is not a directory (missing, or a file) every call
\* returns the empty list and does not raise; a directory without a matching
\* file yields the empty list too.
C8_InvalidRootEmpty ==
    calls > 0 =>
        /\ ~is_dir(fs, root) => (out = <<>> /\ ~raised)
        /\ (is_dir(fs, root) /\ ~raised /\ MatchingEntries(fs, root, exts) = {})
              => out = <<>>

\* C8 witness: a second call on a root that is a file, not a directory
C8_Witness ==
    /\ calls >= 2
    /\ Exists(fs, root)
    /\ ~is_dir(fs, root)
    /\ out = <<>>

----------------------------------------------------------------------------
(* ImageListModel and the filter proxy *)

Sig(name, arg) == [sig |-> name, arg |-> arg]

\* ImageListModel.data(index, displayRole)
data_display(p) == basename(p)

\* A plausible slip: the proxy filtering on the file path role.
filterAcceptsRow_path(ps, row, text) ==
    Contains(lower(ps[row]), lower(text))

\* The proxy's test of one source row: filter role displayRole, fixed string,
\* case-insensitive (lines 182-183, 201)
filterAcceptsRow(ps, row, text) ==
    Contains(lower(data_display(ps[row])), lower(text))

\* The proxy's mapping rebuilt from the source model: the accepted source
\* rows in source order (the proxy is never sorted)
RECURSIVE FilterRows(_, _, _)
FilterRows(ps, n, text) ==
    IF n = 0 THEN <<>>
    ELSE IF filterAcceptsRow(ps, n, text)
         THEN Append(FilterRows(ps, n - 1, text), n)
         ELSE FilterRows(ps, n - 1, text)

\* The proxy's mapping after the source reports rowsRemoved(row, row)
RowsAfterRemoval(rows, row) ==
    LET kept == SelectSeq(rows, LAMBDA r : r # row)
    IN  [i \in 1..Len(kept) |-> IF kept[i] > row THEN kept[i] - 1 ELSE kept[i]]

\* list.index(path) + 1: the first row holding path, 0 when absent
index(ps, p) ==
    IF \E i \in 1..Len(ps) : ps[i] = p
    THEN CHOOSE i \in 1..Len(ps) : ps[i] = p /\ \A j \in 1..(i-1) : ps[j] # p
    ELSE 0

\* A plausible slip: dropping every occurrence of the path.
pop_all(ps, row) == SelectSeq(ps, LAMBDA q : q # ps[row])

\* list.pop(row)
pop(ps, row) == SubSeq(ps, 1, row - 1) \o SubSeq(ps, row + 1, Len(ps))

\* A plausible slip: replace without _thumbs.clear().
replace_keep_thumbs(l) ==
    /\ paths' = l
    /\ thumbs' = thumbs
    /\ proxyRows' = FilterRows(l, Len(l), filterText)
    /\ notif' = <<Sig("modelReset", 0)>>
    /\ UNCHANGED filterText

\* ImageListModel.replace(paths)
replace(l) ==
    /\ paths' = l
    /\ thumbs' = {}
    /\ proxyRows' = FilterRows(l, Len(l), filterText)
    /\ notif' = <<Sig("modelReset", 0)>>
    /\ UNCHANGED filterText

\* A plausible slip: remove_path without _thumbs.pop(path, None).
remove_path_keep_thumb(p) ==
    LET row == index(paths, p)
    IN  IF row = 0
        THEN /\ notif' = <<>>
             /\ UNCHANGED storeVars
        ELSE /\ paths' = pop(paths, row)
             /\ thumbs' = thumbs
             /\ proxyRows' = RowsAfterRemoval(proxyRows, row)
             /\ notif' = <<Sig("rowsRemoved", row)>>
             /\ UNCHANGED filterText

\* ImageListModel.remove_path(path)
remove_path(p) ==
    LET row == index(paths, p)
    IN  IF row = 0
        THEN /\ notif' = <<>>
             /\ UNCHANGED storeVars
        ELSE /\ paths' = pop(paths, row)
             /\ thumbs' = thumbs \ {p}
             /\ proxyRows' = RowsAfterRemoval(proxyRows, row)
             /\ notif' = <<Sig("rowsRemoved", row)>>
             /\ UNCHANGED filterText

\* ViewModel.set_filter(text)
set_filter(text) ==
    /\ filterText' = text
    /\ proxyRows' = FilterRows(paths, Len(paths), text)
    /\ notif' = <<>>
    /\ UNCHANGED <<paths, thumbs>>

\* ImageListModel.data(index, decorationRole), lines 77-82: the icon of the
\* row's path is made and cached on the first lookup
data_decoration(row) ==
    /\ row \in 1..Len(paths)
    /\ thumbs' = thumbs \cup {paths[row]}
    /\ notif' = <<>>
    /\ UNCHANGED <<paths, filterText, proxyRows>>

\* os.remove(p) returns (and does not raise): p is an existing file or link
\* and the operating system does not refuse the removal
os_remove_ok(f, p, denied) ==
    /\ Exists(f, p)
    /\ Node(f, p).kind # "dir"
    /\ p \notin denied

\* model.remove_path(p) as one step of the delete loop, on the loop's state
loop_remove_path(st, p) ==
    LET row == index(st.paths, p)
    IN  IF row = 0 THEN st
        ELSE [st EXCEPT !.paths = pop(st.paths, row),
                        !.thumbs = st.thumbs \ {p},
                        !.proxyRows = RowsAfterRemoval(st.proxyRows, row),
                        !.sigs = Append(st.sigs, Sig("rowsRemoved", row))]

\* MainWindow._delete_selected_files, lines 485-491: the loop over the
\* selected paths; a failed os.remove appends to errors and the loop goes on
RECURSIVE delete_loop(_, _, _)
delete_loop(st, sel, denied) ==
    IF sel = <<>> THEN st
    ELSE LET p == Head(sel)
             next == IF os_remove_ok(st.fs, p, denied)
                     THEN loop_remove_path(
                              [st EXCEPT !.fs = {n \in st.fs : n.path # p}], p)
                     ELSE [st EXCEPT !.errors = Append(st.errors, basename(p))]
         IN  delete_loop(next, Tail(sel), denied)

\* MainWindow._delete_selected_files once the user has confirmed: sel is the
\* selection (distinct paths of the view), denied the removals that fail
delete_selected_files(sel, denied) ==
    LET end == delete_loop([fs |-> fs, paths |-> paths, thumbs |-> thumbs,
                            proxyRows |-> proxyRows, sigs |-> <<>>,
                            errors |-> <<>>], sel, denied)
    IN  /\ sel # <<>>
        /\ fs' = end.fs
        /\ paths' = end.paths
        /\ thumbs' = end.thumbs
        /\ proxyRows' = end.proxyRows
        /\ notif' = IF end.errors = <<>> THEN end.sigs
                    ELSE Append(end.sigs, Sig("critical", end.errors))
        /\ UNCHANGED filterText

\* What the view shows: the source paths of the proxy's rows
View == [i \in 1..Len(proxyRows) |-> paths[proxyRows[i]]]

RECURSIVE ListsUpTo(_, _)
ListsUpTo(S, n) ==
    IF n = 0 THEN { <<>> }
    ELSE LET shorter == ListsUpTo(S, n - 1)
         IN  shorter \cup { Append(l, x) : l \in shorter, x \in S }

\* MainWindow._selected_filepaths: the paths of the selected rows of the
\* view, each once (dict.fromkeys), up to n of them
selected_filepaths(n) ==
    { s \in ListsUpTo({View[i] : i \in 1..Len(View)}, n) :
          /\ s # <<>>
          /\ \A i, j \in 1..Len(s) : i # j => s[i] # s[j] }

----------------------------------------------------------------------------
(* Specification of the list model and its filter alone *)

T_a == <<"a",".","p","n","g">>
T_b == <<"/","a",".","/","B",".","J","P","G">>
T_n == <<"n","o","t","e","s",".","t","x","t">>

StorePaths == {T_a, T_b, T_n}

FilterTexts == { <<>>, <<"a",".">>, <<"A",".","P">>, <<"j","p">> }

\* The lists a direct call of replace may pass
StoreLists == ListsUpTo(StorePaths, MaxLen)

\* The files behind the paths the store may hold
StoreFs == { File(p) : p \in StorePaths }

InitModel ==
    /\ fs = FsCtl
    /\ root = <<>>
    /\ exts = IMAGE_EXTENSIONS
    /\ InitScanVars
    /\ InitStore
    /\ InitCtl

Replace(l) == replace(l) /\ UNCHANGED <<fs, scanVars, ctlVars>>

\* The user deletes a file and the window calls model.remove_path(p)
RemovePath(p) ==
    /\ remove_path(p)
    /\ hist' = IF index(paths, p) = 0 \/ workers = <<>> THEN hist
               ELSE [hist EXCEPT !.touched = TRUE]
    /\ UNCHANGED <<fs, scanVars, busy, emitted, current_worker, workers, queue, cleared>>

SetFilter(text) == set_filter(text) /\ UNCHANGED <<fs, scanVars, ctlVars>>

\* The view asks for the icon of a row
Data(row) == data_decoration(row) /\ UNCHANGED <<fs, scanVars, ctlVars>>

\* The user deletes the selected files and confirms
DeleteSelected(sel, denied) ==
    /\ delete_selected_files(sel, denied)
    /\ UNCHANGED <<scanVars, ctlVars>>

NextModel ==
    \/ \E l \in StoreLists : Replace(l)
    \/ \E p \in StorePaths : RemovePath(p)
    \/ \E t \in FilterTexts : SetFilter(t)
    \/ \E row \in 1..MaxLen : Data(row)

SpecModel == InitModel /\ [][NextModel]_vars

\* The paths a list holds
Elems(l) == {l[i] : i \in 1..Len(l)}

\* C11: replace(l) swaps the whole store in one step: the store afterwards is
\* l in the same order, exactly one full-reset notification is fired, no
\* cached thumbnail remains for a path absent from l, and the view is rebuilt
\* from l alone; whenever observers have just been told of a reset, no
\* stale thumbnail is cached.
C11_ReplaceSwaps ==
    /\ [][\A l \in StoreLists :
            replace(l) =>
               /\ paths' = l
               /\ notif' = <<Sig("modelReset", 0)>>
               /\ thumbs' \subseteq Elems(l)
               /\ \A i \in 1..Len(proxyRows') : proxyRows'[i] \in 1..Len(l)
         ]_vars
    /\ [](notif = <<Sig("modelReset", 0)>> => thumbs \subseteq Elems(paths))

\* C11 witness: a filtered store has just been replaced by two entries
C11_Witness ==
    /\ notif = <<Sig("modelReset", 0)>>
    /\ paths = <<T_n, T_a>>
    /\ filterText = <<"a",".">>
    /\ View = <<T_a>>
    /\ thumbs = {}

\* C12: in every reachable state the store holds no path twice.
C12_NoDuplicatePath ==
    \A i, j \in 1..Len(paths) : i # j => paths[i] # paths[j]

\* C17: every key of the thumbnail cache is a path currently in the store,
\* after any sequence of thumbnail lookups, replace and remove_path.
C17_ThumbsInStore == thumbs \subseteq Elems(paths)

\* C17 witness: an entry with a cached thumbnail has just been removed and
\* the remaining entry keeps its thumbnail
C17_Witness ==
    /\ notif = <<Sig("rowsRemoved", 1)>>
    /\ paths = <<T_a>>
    /\ thumbs = {T_a}

----------------------------------------------------------------------------
(* Specification of the delete handler: it starts from a store that replace *)
(* has filled, filtered, with the icons of the rows shown already cached    *)

InitDelete ==
    /\ fs = StoreFs
    /\ root = <<>>
    /\ exts = IMAGE_EXTENSIONS
    /\ InitScanVars
    /\ InitCtl
    /\ paths \in StoreLists
    /\ filterText \in FilterTexts
    /\ proxyRows = FilterRows(paths, Len(paths), filterText)
    /\ thumbs = {paths[proxyRows[i]] : i \in 1..Len(proxyRows)}

NextDelete ==
    \E sel \in selected_filepaths(MaxSel) :
        \E denied \in SUBSET {sel[i] : i \in 1..Len(sel)} :
            DeleteSelected(sel, denied)

SpecDelete == InitDelete /\ [][NextDelete]_vars

\* C13: when the selected files are deleted, every file whose deletion
\* succeeded is no longer in the store, every file whose deletion failed is
\* still in it, a failure does not stop the deletions after it, and the
\* failures are reported in one aggregate message (none when all succeed).
C13_DeleteKeepsFailures ==
    [][\A sel \in selected_filepaths(MaxSel) :
         \A denied \in SUBSET Elems(sel) :
            delete_selected_files(sel, denied) =>
               LET gone == {p \in Elems(sel) : Exists(fs, p) /\ ~Exists(fs', p)}
                   failed == SelectSeq(sel, LAMBDA p : p \notin gone)
               IN  /\ \A p \in gone : p \notin Elems(paths')
                   /\ \A p \in Elems(failed) : p \in Elems(paths')
                   /\ gone = {p \in Elems(sel) : Exists(fs, p) /\ p \notin denied}
                   /\ Cardinality({i \in 1..Len(notif') :
                                      notif'[i].sig = "critical"})
                         = IF failed = <<>> THEN 0 ELSE 1
                   /\ failed # <<>> =>
                         notif'[Len(notif')] =
                            Sig("critical",
                                [i \in 1..Len(failed) |-> basename(failed[i])])
      ]_vars

\* The entries of ps whose display name contains text, case-insensitively
NameMatches(p, text) ==
    LET name == lower(SubSeq(p, rfind(p, "/") + 1, Len(p)))
        t == lower(text)
    IN  \E i \in 0..(Len(name) - Len(t)) :
            \A k \in 1..Len(t) : name[i + k] = t[k]

\* C9: the filtered view is exactly the subsequence of the store whose display
\* name (final path segment) contains the filter text case-insensitively, in
\* store order; with the empty text it is the whole store.  It holds after
\* every replace, remove_path and set_filter.
C9_FilteredView ==
    /\ \A i \in 1..Len(proxyRows) : proxyRows[i] \in 1..Len(paths)
    /\ \A i \in 1..(Len(proxyRows) - 1) : proxyRows[i] < proxyRows[i+1]
    /\ \A r \in 1..Len(paths) :
          (\E i \in 1..Len(proxyRows) : proxyRows[i] = r)
              <=> NameMatches(paths[r], filterText)
    /\ filterText = <<>> => View = paths

\* C9 witness: the test's store filtered by "a." after a removal, where an
\* entry's directory part holds the text and its name does not
C9_Witness ==
    /\ filterText = <<"a",".">>
    /\ paths = <<T_b, T_a, T_n>>
    /\ View = <<T_a>>

\* C10: remove_path(p) leaves the store and fires nothing when p is absent;
\* when p is present it removes exactly one entry, keeps the order of the
\* others and fires exactly one rowsRemoved notification.
C10_RemovePath ==
    [][\A p \in StorePaths :
         remove_path(p) =>
            IF \A i \in 1..Len(paths) : paths[i] # p
            THEN paths' = paths /\ notif' = <<>>
            ELSE \E r \in 1..Len(paths) :
                    /\ paths[r] = p
                    /\ Len(paths') = Len(paths) - 1
                    /\ \A i \in 1..Len(paths') :
                          paths'[i] = IF i < r THEN paths[i] ELSE paths[i + 1]
                    /\ notif' = <<Sig("rowsRemoved", r)>>
      ]_vars

\* C10 witness: the middle entry of three has just been removed
C10_Witness ==
    /\ notif = <<Sig("rowsRemoved", 2)>>
    /\ paths = <<T_n, T_n>>


----------------------------------------------------------------------------
(* ScanWorker and ViewModel: the scan controller *)

S_empty == <<>>

InvalidPaths == {S_empty, S_r_a}
ValidPaths == {S_r, S_q}
RemovablePaths == {S_r_a, S_r_c}

\* ScanWorker.__init__, queued on the pool: pc is the place in run()
NewWorker(p) ==
    [path |-> p, cancel |-> FALSE, pc |-> "start", matches |-> <<>>,
     failed |-> FALSE]

NewHist == [store |-> paths, touched |-> FALSE, reports |-> 0]

Event(kind, w) == [kind |-> kind, w |-> w]

\* A plausible slip: cancel() that never sets the event.
cancel_noop(ws, w) == ws

\* ScanWorker.cancel
cancel(ws, w) == [ws EXCEPT ![w].cancel = TRUE]

\* A plausible slip: _set_busy without the test of line 195.
set_busy_always(value) ==
    /\ busy' = value
    /\ notif' = <<Sig("busyChanged", IF value THEN 1 ELSE 0)>>
    /\ emitted' = IF value THEN "true" ELSE "false"

\* ViewModel._set_busy
set_busy(value) ==
    /\ busy' = value
    /\ notif' = IF busy # value
                THEN <<Sig("busyChanged", IF value THEN 1 ELSE 0)>>
                ELSE <<>>
    /\ emitted' = IF busy # value
                  THEN (IF value THEN "true" ELSE "false")
                  ELSE emitted

\* ViewModel.scan(path), on the foreground thread
scan(p) ==
    \/ /\ p = S_empty \/ ~is_dir(fs, p)
       /\ replace(<<>>)
       /\ cleared' = TRUE
       /\ hist' = IF workers = <<>> THEN hist ELSE [hist EXCEPT !.touched = TRUE]
       /\ UNCHANGED <<busy, emitted, current_worker, workers, queue>>
    \/ /\ p # S_empty /\ is_dir(fs, p)
       /\ Len(workers) < MaxWorkers
       /\ workers' = Append(IF current_worker # 0
                            THEN cancel(workers, current_worker)
                            ELSE workers,
                            NewWorker(p))
       /\ set_busy(TRUE)
       /\ current_worker' = Len(workers) + 1
       /\ hist' = NewHist
       /\ cleared' = FALSE
       /\ UNCHANGED <<storeVars, queue>>

\* ScanWorker.run, line 153, on a pool thread: the walk returns or raises
run_scan(w, io) ==
    /\ workers[w].pc = "start"
    /\ workers' = [workers EXCEPT
                     ![w].pc = "check",
                     ![w].failed = io /\ can_raise(fs, workers[w].path),
                     ![w].matches = IF io /\ can_raise(fs, workers[w].path)
                                    THEN <<>>
                                    ELSE scan_images(fs, workers[w].path,
                                                     IMAGE_EXTENSIONS)]
    /\ notif' = <<>>
    /\ UNCHANGED <<storeVars, busy, emitted, current_worker, queue, hist, cleared>>

\* ScanWorker.run, lines 154-157 and 160-163: the test of the cancel event
run_check(w) ==
    /\ workers[w].pc = "check"
    /\ workers' = [workers EXCEPT
                     ![w].pc = IF workers[w].cancel THEN "finally" ELSE "emit"]
    /\ notif' = <<>>
    /\ UNCHANGED <<storeVars, busy, emitted, current_worker, queue, hist, cleared>>

\* ScanWorker.run, lines 158 and 164: result.emit or error.emit, queued to
\* the foreground thread
run_emit(w) ==
    /\ workers[w].pc = "emit"
    /\ queue' = Append(queue,
                       Event(IF workers[w].failed THEN "error" ELSE "result", w))
    /\ workers' = [workers EXCEPT ![w].pc = "finally"]
    /\ notif' = <<>>
    /\ UNCHANGED <<storeVars, busy, emitted, current_worker, hist, cleared>>

\* A plausible slip: run() without the finally clause of lines 165-166.
run_finally_lost(w) ==
    /\ workers[w].pc = "finally"
    /\ workers' = [workers EXCEPT ![w].pc = "done"]
    /\ notif' = <<>>
    /\ UNCHANGED <<storeVars, busy, emitted, current_worker, queue, hist, cleared>>

\* ScanWorker.run, line 166: finished.emit
run_finally(w) ==
    /\ workers[w].pc = "finally"
    /\ queue' = Append(queue, Event("finished", w))
    /\ workers' = [workers EXCEPT ![w].pc = "done"]
    /\ notif' = <<>>
    /\ UNCHANGED <<storeVars, busy, emitted, current_worker, hist, cleared>>

\* The foreground thread delivers result to model.replace (line 225)
deliver_result(w) ==
    /\ queue # <<>>
    /\ Head(queue) = Event("result", w)
    /\ queue' = Tail(queue)
    /\ replace(workers[w].matches)
    /\ UNCHANGED <<busy, emitted, current_worker, workers, hist, cleared>>

\* The foreground thread delivers error to the printing lambda (line 226)
deliver_error(w) ==
    /\ queue # <<>>
    /\ Head(queue) = Event("error", w)
    /\ queue' = Tail(queue)
    /\ notif' = <<Sig("scanError", w)>>
    /\ hist' = IF w = Len(workers) THEN [hist EXCEPT !.reports = @ + 1] ELSE hist
    /\ UNCHANGED <<storeVars, busy, emitted, current_worker, workers, cleared>>

\* The foreground thread delivers finished to on_finished (lines 220-223)
on_finished(w) ==
    /\ queue # <<>>
    /\ Head(queue) = Event("finished", w)
    /\ queue' = Tail(queue)
    /\ current_worker' = IF current_worker = w THEN 0 ELSE current_worker
    /\ set_busy(FALSE)
    /\ hist' = IF w = Len(workers) THEN NoHist ELSE hist
    /\ UNCHANGED <<storeVars, workers, cleared>>

Init ==
    /\ fs = FsCtl
    /\ root = <<>>
    /\ exts = IMAGE_EXTENSIONS
    /\ InitScanVars
    /\ InitStore
    /\ InitCtl

Scan(p) == scan(p) /\ UNCHANGED <<fs, scanVars>>

Worker(w) ==
    /\ \/ \E io \in BOOLEAN : run_scan(w, io)
       \/ run_check(w)
       \/ run_emit(w)
       \/ run_finally(w)
    /\ UNCHANGED <<fs, scanVars>>

Deliver(w) ==
    /\ \/ deliver_result(w)
       \/ deliver_error(w)
       \/ on_finished(w)
    /\ UNCHANGED <<fs, scanVars>>

Next ==
    \/ \E p \in InvalidPaths \cup ValidPaths : Scan(p)
    \/ \E w \in 1..Len(workers) : Worker(w)
    \/ \E w \in 1..Len(workers) : Deliver(w)
    \/ \E p \in RemovablePaths : RemovePath(p)

Spec == Init /\ [][Next]_vars

\* A step of a worker that has not returned yet.  Some such step is enabled
\* exactly when some step of Worker is (a walk that can return can also
\* raise), and only finitely many steps of Worker exist in a run, so weak
\* fairness on these steps admits exactly the runs in which no worker is
\* left waiting forever, whatever its walk yields.
WorkerRuns(w) ==
    /\ \/ run_scan(w, TRUE)
       \/ run_check(w)
       \/ run_emit(w)
       \/ run_finally(w)
    /\ UNCHANGED <<fs, scanVars>>

\* The pool runs every queued worker and the foreground event loop delivers
\* every queued signal
Fairness ==
    /\ WF_vars(\E w \in 1..Len(workers) : WorkerRuns(w))
    /\ WF_vars(\E w \in 1..Len(workers) : Deliver(w))

SpecFair == Spec /\ Fairness

\* Runs of scan requests on valid directories only, where no walk fails and
\* the user removes nothing
WorkerOk(w) ==
    /\ \/ run_scan(w, FALSE)
       \/ run_check(w)
       \/ run_emit(w)
       \/ run_finally(w)
    /\ UNCHANGED <<fs, scanVars>>

DeliverOk(w) ==
    /\ \/ deliver_result(w)
       \/ on_finished(w)
    /\ UNCHANGED <<fs, scanVars>>

NextValid ==
    \/ \E p \in ValidPaths : Scan(p)
    \/ \E w \in 1..Len(workers) : WorkerOk(w)
    \/ \E w \in 1..Len(workers) : DeliverOk(w)

SpecValid == Init /\ [][NextValid]_vars


----------------------------------------------------------------------------
(* Claims about the scan controller *)

Sessions == 1..Len(workers)

\* run() has returned and on_finished has been handled
Finished(w) ==
    /\ workers[w].pc = "done"
    /\ \A i \in 1..Len(queue) : queue[i] # Event("finished", w)

\* A session that can still publish
Live(w) == ~workers[w].cancel /\ ~Finished(w)

\* C1: replace never stores the result of a session that a newer request has
\* superseded: only the newest session's result is published.
C1_OnlyNewestPublishes ==
    [][\A w \in Sessions : deliver_result(w) => w = Len(workers)]_vars

\* C2: while the session started by the last valid request is live, busy is
\* true, whatever cancelled sessions finish in between.
C2_BusyWhileLive ==
    \A w \in Sessions : (current_worker = w /\ Live(w)) => busy

\* C3: an invalid-path request leaves the controller idle (busy false, no
\* session that can still publish) with an empty store, and the store stays
\* empty for as long as no valid request follows.
C3_InvalidPathIdle ==
    /\ [][\A p \in InvalidPaths :
            scan(p) => /\ busy' = FALSE
                       /\ current_worker' = 0
                       /\ \A w \in Sessions : ~Live(w)'
                       /\ paths' = <<>>]_vars
    /\ [](cleared => paths = <<>>)

\* C4: the result of a still-live session is published while busy is still
\* true, and once its finished is handled busy is false, there is no current
\* session and the store holds its result (unless the user removed an entry
\* or cleared the store since the request).
C4_PublishThenIdle ==
    [][\A w \in Sessions :
         /\ (deliver_result(w) /\ current_worker = w) => busy
         /\ (on_finished(w) /\ current_worker = w /\ ~workers[w].failed) =>
               /\ busy' = FALSE
               /\ current_worker' = 0
               /\ ~hist.touched => paths' = workers[w].matches
      ]_vars

\* C5: when a still-live session has failed and its finished is handled, the
\* store is as it was at the request (unless the user removed an entry or
\* cleared the store since), the failure was reported once, busy is false and
\* there is no current session.
C5_FailureLeavesStore ==
    [][\A w \in Sessions :
         (on_finished(w) /\ current_worker = w /\ workers[w].failed) =>
            /\ ~hist.touched => paths' = hist.store
            /\ hist.reports = 1
            /\ busy' = FALSE
            /\ current_worker' = 0
      ]_vars

\* C6: at most one session is live, the live one is _current_worker, and
\* every earlier session still running has been cancelled.
C6_AtMostOneLive ==
    /\ \A w \in Sessions : Live(w) => current_worker = w
    /\ Cardinality({w \in Sessions : Live(w)}) <= 1
    /\ \A w1, w2 \in Sessions :
          (w1 < w2 /\ ~Finished(w1)) => workers[w1].cancel

\* C6 witness: a cancelled session still running beside the live one
C6_Witness ==
    /\ Len(workers) >= 2
    /\ workers[1].cancel /\ workers[1].pc = "start"
    /\ current_worker = 2 /\ Live(2)
    /\ workers[2].pc = "emit"

\* The newest session has not been superseded and its result is still to be
\* published
Unpublished ==
    /\ workers # <<>>
    /\ ~workers[Len(workers)].cancel
    /\ \/ workers[Len(workers)].pc \in {"start", "check", "emit"}
       \/ \E i \in 1..Len(queue) : queue[i] = Event("result", Len(workers))

\* C14: a scan request on a valid directory sets busy, starts exactly one new
\* live session and leaves the store, the filter and the view as they were;
\* and the store keeps the content it had at the request until that session
\* publishes (unless the user removed an entry or cleared the store since).
C14_ScanRequestFrame ==
    /\ [][\A p \in ValidPaths :
            scan(p) =>
               /\ busy'
               /\ Len(workers') = Len(workers) + 1
               /\ current_worker' = Len(workers')
               /\ {w \in 1..Len(workers') : Live(w)'} = {Len(workers')}
               /\ paths' = paths
               /\ filterText' = filterText
               /\ proxyRows' = proxyRows
         ]_vars
    /\ []((Unpublished /\ ~hist.touched) => paths = hist.store)

\* Every worker has returned and every queued signal has been delivered:
\* every session has emitted finished and it has been handled
Quiescent ==
    /\ workers # <<>>
    /\ queue = <<>>
    /\ \A w \in Sessions : workers[w].pc = "done"

\* The finished signals of session w waiting in the queue
FinishedQueued(w) == {i \in 1..Len(queue) : queue[i] = Event("finished", w)}

\* C15: under fair scheduling of the workers and of the foreground event
\* loop, every started session, live or cancelled, emits finished once and
\* it is handled; the controller then reaches Idle (busy false, no current
\* session, nothing left to deliver), and Idle is left only by a request.
C15_EventuallyIdle ==
    /\ [](\A w \in Sessions :
             /\ Cardinality(FinishedQueued(w)) <= 1
             /\ workers[w].pc # "done" => FinishedQueued(w) = {})
    /\ (workers # <<>>) ~> (Quiescent /\ ~busy /\ current_worker = 0)
    /\ [][(~busy /\ current_worker = 0 /\ ~(\E p \in ValidPaths : scan(p)))
             => (~busy' /\ current_worker' = 0)]_vars

\* C15 witness: two sessions, the first cancelled, have both finished and the
\* controller is idle
C15_Witness ==
    /\ Len(workers) = 2
    /\ workers[1].cancel
    /\ Quiescent
    /\ ~busy
    /\ current_worker = 0

\* C16: once every worker has finished and every queued signal is delivered,
\* the store holds the scan result of the most recently requested path,
\* whatever order the workers completed in (requests on valid directories
\* only, no failure, no removal).
C16_EventualResult ==
    Quiescent =>
        paths = scan_images(fs, workers[Len(workers)].path, IMAGE_EXTENSIONS)

\* C18: busy changes only in a scan request or in the handling of a session's
\* finished signal; busyChanged is emitted exactly when the value changes,
\* carrying the new value, so the emitted values alternate starting with
\* true; and the last emitted value is the current busy flag.
C18_BusySignal ==
    /\ [][(busy' # busy) =>
            /\ \/ \E p \in ValidPaths : scan(p)
               \/ \E w \in Sessions : on_finished(w)
            /\ notif' = <<Sig("busyChanged", IF busy' THEN 1 ELSE 0)>>
            /\ emitted' # emitted
            /\ emitted = "none" => emitted' = "true"
         ]_vars
    /\ [][(busy' = busy) =>
            /\ \A i \in 1..Len(notif') : notif'[i].sig # "busyChanged"
            /\ emitted' = emitted
         ]_vars
    /\ [](busy <=> emitted = "true")

\* C18 witness: busy was raised, dropped and is raised again by a second
\* request
C18_Witness ==
    /\ Len(workers) = 2
    /\ Finished(1)
    /\ ~workers[1].cancel
    /\ busy
    /\ emitted = "true"
    /\ notif = <<Sig("busyChanged", 1)>>

====
